---- MODULE Spec2Model ----
(***************************************************************************)
(* GasGuru: the batch queue (batched_transactions), the analytics table    *)
(* (gas_analytics), the POST /api/batch route and the BatchingService      *)
(* operations addToBatch, executeImmediateTransaction, executeBatch,       *)
(* updateAnalytics and processAutoBatching, each run by request handlers   *)
(* that interleave at their awaits.  A step of a handler is the code from  *)
(* one database call to the next; calls that touch no table (the RPC gas   *)
(* estimate, the signer, the timer) are part of the step they precede.     *)
(* In Spec and SpecPost the database answers every query, except the       *)
(* per-transaction UPDATE of executeBatch, whose rejection is what the      *)
(* loop's catch handles.  SpecOne is Spec without executeBatch and         *)
(* processAutoBatching.  SpecBatch runs executeBatch in one handler with   *)
(* distinct transaction hashes and lets each of its queries reject, which   *)
(* is what its outer catch handles.  SpecAuto runs processAutoBatching in   *)
(* one handler on queues of pending records of several recipients and      *)
(* tokens, SpecLater does so while the clock advances, on records some of   *)
(* which carry a scheduledFor.  SpecOptimize applies optimizeBatch to       *)
(* lists of records, SpecConvert runs executeImmediateTransaction on        *)
(* amounts around 10^18, SpecSchedule runs createScheduledBatch and         *)
(* getReadyBatches, SpecPool makes the handlers of Spec wait for a client   *)
(* of the connection pool, and SpecSdk runs one autoBatch call of the SDK   *)
(* with its timers.                                                         *)
(***************************************************************************)
EXTENDS Integers, Sequences, FiniteSets, TLC

(***************************************************************************)
(* Bounds of the model.                                                    *)
(***************************************************************************)
MaxTxs == 2        \* rows the queue may hold before enqueues stop
MaxCount == 2      \* an execution starts only while total_batches is below this
MaxTime == 1       \* the latest timestamp a request may carry

(***************************************************************************)
(* Program constants.                                                      *)
(***************************************************************************)
AddressHexDigits == 40     \* {40} in the route's addressRegex
DefaultGas == 21000        \* estimateTransactionGas fallback
GasUsedPerTx == 21000      \* "gasUsed = BigInt(21000)"
SavingsPercent == 30       \* gasUsed * 30 / 100
AvgScale == 100            \* average_batch_size DECIMAL(10,2)

Procs == {1, 2}            \* concurrent request handlers
PostProcs == {1, 2}
Null == "NULL"             \* SQL NULL / JS undefined for text columns
NoTime == -1               \* SQL NULL for timestamp columns
Missing == <<>>            \* absent or empty JSON string (both falsy)

(***************************************************************************)
(* Strings are sequences of one-character strings.                         *)
(***************************************************************************)
Digit == [c \in {"0","1","2","3","4","5","6","7","8","9"} |->
            CASE c = "0" -> 0 [] c = "1" -> 1 [] c = "2" -> 2 [] c = "3" -> 3
              [] c = "4" -> 4 [] c = "5" -> 5 [] c = "6" -> 6 [] c = "7" -> 7
              [] c = "8" -> 8 [] c = "9" -> 9]
Digits == DOMAIN Digit
HexChars == Digits \cup {"a","b","c","d","e","f","A","B","C","D","E","F"}

Rep(c, n) == [i \in 1..n |-> c]
Tail2(s) == SubSeq(s, 2, Len(s))

\* /^0x[a-fA-F0-9]{40}$/.test(s)
AddressRegexTest(s) ==
    /\ Len(s) = AddressHexDigits + 2
    /\ s[1] = "0" /\ s[2] = "x"
    /\ \A i \in 3..Len(s) : s[i] \in HexChars

AllDigits(s) == \A i \in 1..Len(s) : s[i] \in Digits
AnyNonZero(s) == \E i \in 1..Len(s) : s[i] \in Digits /\ s[i] # "0"
Dots(s) == {i \in 1..Len(s) : s[i] = "."}

\* StrUnsignedDecimalLiteral without exponent: digits, digits. , digits.digits , .digits
IsUnsignedDecimal(s) ==
    /\ Len(s) > 0
    /\ \A i \in 1..Len(s) : s[i] \in Digits \cup {"."}
    /\ Cardinality(Dots(s)) <= 1
    /\ \E i \in 1..Len(s) : s[i] \in Digits

\* Number(s) for a string s of digits, ".", a sign and letters that are no
\* part of a numeric literal: nan, or the sign of the value
NumberOf(s) ==
    LET body == IF Len(s) > 0 /\ s[1] \in {"-", "+"} THEN Tail2(s) ELSE s
        neg == Len(s) > 0 /\ s[1] = "-"
    IN  IF s = <<>> THEN [nan |-> FALSE, sgn |-> 0]
        ELSE IF ~IsUnsignedDecimal(body) THEN [nan |-> TRUE, sgn |-> 0]
        ELSE IF ~AnyNonZero(body) THEN [nan |-> FALSE, sgn |-> 0]
        ELSE [nan |-> FALSE, sgn |-> IF neg THEN -1 ELSE 1]

RECURSIVE DecimalValue(_)
DecimalValue(s) ==
    IF s = <<>> THEN 0
    ELSE 10 * DecimalValue(SubSeq(s, 1, Len(s) - 1)) + Digit[s[Len(s)]]

\* BigInt(s) for a string s: SyntaxError unless s is an optionally signed
\* run of decimal digits (the empty string is 0n)
BigIntOf(s) ==
    LET body == IF Len(s) > 0 /\ s[1] \in {"-", "+"} THEN Tail2(s) ELSE s
        neg == Len(s) > 0 /\ s[1] = "-"
    IN  IF s = <<>> THEN [ok |-> TRUE, val |-> 0]
        ELSE IF body = <<>> \/ ~AllDigits(body) THEN [ok |-> FALSE, val |-> 0]
        ELSE [ok |-> TRUE, val |-> IF neg THEN 0 - DecimalValue(body)
                                          ELSE DecimalValue(body)]

\* whether BigInt(s) returns, for amounts too large to be computed with here
BigIntParses(s) ==
    LET body == IF Len(s) > 0 /\ s[1] \in {"-", "+"} THEN Tail2(s) ELSE s
    IN  s = <<>> \/ (body # <<>> /\ AllDigits(body))

\* Arbitrary-precision integers are kept as their decimal strings.
RECURSIVE StripZeros(_)
StripZeros(d) ==
    IF Len(d) > 1 /\ d[1] = "0" THEN StripZeros(Tail(d))
    ELSE IF d = <<>> THEN <<"0">> ELSE d
Signed(neg, d) == IF neg /\ d # <<"0">> THEN <<"-">> \o d ELSE d
\* BigInt(s).toString()
BigIntString(s) ==
    LET body == IF Len(s) > 0 /\ s[1] \in {"-", "+"} THEN Tail2(s) ELSE s
    IN  Signed(Len(s) > 0 /\ s[1] = "-", StripZeros(body))
\* the 18 zeros of BigInt('1000000000000000000') and the 18 decimals of
\* ethers.parseEther
ShmDecimals == 18
\* (BigInt(amount) / BigInt('1000000000000000000')).toString(): BigInt
\* division drops the remainder
AmountInSHM(amount) ==
    LET d == BigIntString(amount)
        neg == d[1] = "-"
        m == IF neg THEN Tail(d) ELSE d
    IN  Signed(neg, IF Len(m) <= ShmDecimals THEN <<"0">>
                    ELSE SubSeq(m, 1, Len(m) - ShmDecimals))
\* ethers.parseEther(x) for a decimal integer string x, as the decimal
\* string of the wei value
ParseEther(x) ==
    LET neg == x[1] = "-"
        m == IF neg THEN Tail(x) ELSE x
    IN  Signed(neg, StripZeros(m \o Rep("0", ShmDecimals)))

(***************************************************************************)
(* Inputs.                                                                 *)
(***************************************************************************)
Addr(c) == <<"0", "x">> \o Rep(c, AddressHexDigits)
AddrA == Addr("a")
AddrB == Addr("B")
TokenT == Addr("d")
BadAddresses ==
    { Missing,                                    \* absent
      <<"0", "x">> \o Rep("a", AddressHexDigits - 1),   \* too short
      <<"0", "x">> \o Rep("a", AddressHexDigits + 1),   \* too long
      <<"0", "x">> \o Rep("g", AddressHexDigits),       \* not hex
      <<"0", "X">> \o Rep("a", AddressHexDigits) }      \* wrong prefix
FractionAmounts == { <<"1", ".", "5">> }
BadAmounts == { Missing, <<"0">>, <<"-", "1">>, <<"a">>, <<"1", "a">>,
                <<"0", ".", "0">>, <<"-", "0", ".", "5">>, <<".">> }

Body(u, t, a, k, s) ==
    [userAddress |-> u, toAddress |-> t, amount |-> a,
     tokenAddress |-> k, scheduledFor |-> s]
NoBody == Body(Missing, Missing, Missing, Missing, NoTime)

\* bodies of POST /api/batch: the well-formed ones, and each way of being
\* malformed in one field
WellFormedBodies ==
    { Body(AddrA, AddrB, <<"1">>, k, s) : k \in {Missing, TokenT}, s \in {NoTime, MaxTime} }
    \cup { Body(AddrA, AddrB, a, Missing, NoTime) : a \in FractionAmounts }
MalformedBodies ==
    { Body(u, AddrB, <<"1">>, Missing, NoTime) : u \in BadAddresses }
    \cup { Body(AddrA, t, <<"1">>, Missing, NoTime) : t \in BadAddresses }
    \cup { Body(AddrA, AddrB, a, Missing, NoTime) : a \in BadAmounts }
RequestBodies == WellFormedBodies \cup MalformedBodies

\* bodies enqueued while executions run concurrently
QueueBodies == { Body(AddrA, AddrB, <<"1">>, Missing, NoTime) }

IdNum == [id \in {"b1", "b2", "b3", "b4"} |->
            CASE id = "b1" -> 1 [] id = "b2" -> 2 [] id = "b3" -> 3 [] id = "b4" -> 4]
BatchIds == DOMAIN IdNum             \* values generateBatchId may return
Hashes == {"0xh1"}                   \* transaction hashes
ErrMsgs == {"rejected"}              \* error messages of the signer and the store
RpcGas == {DefaultGas, 50000}        \* results of eth_estimateGas

VARIABLES
    txs,         \* table batched_transactions, in insertion (created_at) order
    analytics,   \* table gas_analytics, in insertion order
    now,         \* the database clock NOW(), which stands still in this model
    pc,          \* per handler: the await it is suspended at
    loc,         \* per handler: its local variables
    scheduled,   \* table scheduled_batches, in insertion order
    applied,     \* history: the sums of the deltas of the completed updateAnalytics calls
    sdk          \* the GasGuruSDK instance of a client and its autoBatch call

vars == <<txs, analytics, now, pc, loc, scheduled, applied, sdk>>

NoResp == [status |-> 0, success |-> FALSE, batchId |-> Null,
           txHash |-> Null, error |-> Null, gasUsed |-> 0]
NoUpdates == [batchCount |-> 0, transactionCount |-> 0, gasSaved |-> 0]
NoConfig == [maxBatchSize |-> 0, minTransactionCount |-> 0]
InitLoc ==
    [op |-> "none", body |-> NoBody, batchId |-> Null, gas |-> 0,
     rpcCalled |-> FALSE, rpcFailed |-> FALSE, txns |-> <<>>, i |-> 0, txHashes |-> <<>>,
     totalGasUsed |-> 0, groups |-> <<>>, g |-> 0, config |-> NoConfig,
     cur |-> <<>>, updates |-> NoUpdates, ret |-> "none", resp |-> NoResp,
     seen |-> Null, signerCalls |-> 0, amountInSHM |-> <<>>]

\* a GasGuruSDK as its constructor leaves it, with no autoBatch call made:
\* the two maps, the position of the autoBatch call in its loops, and the
\* history of the transactions handed to addToBatch
InitSdk ==
    [pc |-> "idle", transactions |-> <<>>, groups |-> <<>>, g |-> 0, j |-> 0,
     pendingTransactions |-> {}, batchTimeouts |-> {}, armed |-> {}, running |-> {},
     submitted |-> <<>>, destroyed |-> FALSE]

Init ==
    /\ txs = <<>>
    /\ analytics = <<>>
    /\ now = 0
    /\ pc = [p \in Procs |-> "idle"]
    /\ loc = [p \in Procs |-> InitLoc]
    /\ scheduled = <<>>
    /\ applied = NoUpdates
    /\ sdk = InitSdk

(***************************************************************************)
(* The store.                                                              *)
(***************************************************************************)
Range(s) == {s[i] : i \in 1..Len(s)}
RowsWithId(id) == {i \in 1..Len(txs) : txs[i].batch_id = id}
StoredIds == {txs[i].batch_id : i \in 1..Len(txs)}

\* the row an INSERT INTO batched_transactions creates: the listed columns
\* from the parameters, the others from the column defaults
NewTxRowBad(batchId, userAddress, toAddress, amount, tokenAddress, gasEstimate, scheduledFor) ==
    [batch_id |-> batchId, user_address |-> userAddress, to_address |-> toAddress,
     amount |-> amount, token_address |-> tokenAddress, gas_estimate |-> gasEstimate,
     status |-> IF scheduledFor # NoTime THEN "scheduled" ELSE "pending",
     scheduled_for |-> scheduledFor,
     executed_at |-> NoTime, tx_hash |-> Null,
     error_message |-> Null]
NewTxRow(batchId, userAddress, toAddress, amount, tokenAddress, gasEstimate, scheduledFor) ==
    [batch_id |-> batchId, user_address |-> userAddress, to_address |-> toAddress,
     amount |-> amount, token_address |-> tokenAddress, gas_estimate |-> gasEstimate,
     status |-> "pending", scheduled_for |-> scheduledFor,
     executed_at |-> NoTime, tx_hash |-> Null,
     error_message |-> Null]

\* batch_id VARCHAR(255) UNIQUE NOT NULL
UniqueViolationBad(batchId) == FALSE
UniqueViolation(batchId) == batchId \in StoredIds

(***************************************************************************)
(* POST /api/batch and BatchingService.addToBatch                          *)
(***************************************************************************)
\* the three validation steps of the route; TRUE when the request is rejected
MissingFields(b) ==
    b.userAddress = Missing \/ b.toAddress = Missing \/ b.amount = Missing
InvalidAddress(b) ==
    ~AddressRegexTest(b.userAddress) \/ ~AddressRegexTest(b.toAddress)
InvalidAmountBad(b) == NumberOf(b.amount).nan \/ NumberOf(b.amount).sgn < 0
InvalidAmount(b) == NumberOf(b.amount).nan \/ NumberOf(b.amount).sgn <= 0
Rejected(b) == MissingFields(b) \/ InvalidAddress(b) \/ InvalidAmount(b)

\* generateBatchId returns an opaque token: a stored one (a collision) or a
\* new one, of which the first unused stands for all
GeneratedIds ==
    StoredIds \cup (IF BatchIds \subseteq StoredIds THEN {}
                    ELSE {CHOOSE id \in BatchIds \ StoredIds :
                            \A other \in BatchIds \ StoredIds : IdNum[id] <= IdNum[other]})

Enqueueing == {p \in Procs : pc[p] = "insert"}

\* what estimateTransactionGas returns: BigInt(value) or the RPC may throw,
\* both are caught and give the default; r = 0 stands for the RPC throwing
GasEstimateBad(amount, r) ==
    IF ~BigIntOf(amount).ok THEN DefaultGas ELSE r
GasEstimate(amount, r) ==
    IF ~BigIntOf(amount).ok \/ r = 0 THEN DefaultGas ELSE r

\* what a handler keeps once it has answered
Answer(op, body, batchId, resp) ==
    [InitLoc EXCEPT !.op = op, !.body = body, !.batchId = batchId, !.resp = resp]

\* the route's validation, then addToBatch up to its INSERT: the batch id
\* is drawn and the gas estimated
PostBatch(p, bodies, gasResults) ==
    /\ pc[p] = "idle"
    /\ Len(txs) + Cardinality(Enqueueing) < MaxTxs
    /\ \E b \in bodies, id \in GeneratedIds, r \in gasResults \cup {0} :
         IF Rejected(b)
         THEN /\ pc' = [pc EXCEPT ![p] = "done"]
              /\ loc' = [loc EXCEPT ![p] = Answer("post", b, Null,
                            [NoResp EXCEPT !.status = 400,
                                 !.error = IF MissingFields(b) THEN "Missing required fields"
                                           ELSE IF InvalidAddress(b) THEN "Invalid Ethereum address format"
                                           ELSE "Invalid amount value"])]
         ELSE /\ pc' = [pc EXCEPT ![p] = "insert"]
              /\ loc' = [loc EXCEPT ![p] = [InitLoc EXCEPT !.op = "post", !.body = b,
                            !.batchId = id,
                            !.rpcCalled = BigIntOf(b.amount).ok,
                            !.rpcFailed = BigIntOf(b.amount).ok /\ r = 0,
                            !.gas = GasEstimate(b.amount, r)]]
    /\ UNCHANGED <<txs, analytics, now, scheduled, applied, sdk>>

\* the INSERT of addToBatch and the route's response
InsertTx(p) ==
    /\ pc[p] = "insert"
    /\ LET b == loc[p].body IN
       IF UniqueViolation(loc[p].batchId)
       THEN /\ txs' = txs
            /\ loc' = [loc EXCEPT ![p].resp = [NoResp EXCEPT !.status = 500,
                                   !.error = "Failed to add transaction to batch"]]
       ELSE /\ txs' = Append(txs, NewTxRow(loc[p].batchId, b.userAddress, b.toAddress,
                                  b.amount, b.tokenAddress, loc[p].gas, b.scheduledFor))
            /\ loc' = [loc EXCEPT ![p].resp = [NoResp EXCEPT !.status = 200,
                                   !.success = TRUE, !.batchId = loc[p].batchId]]
    /\ pc' = [pc EXCEPT ![p] = "done"]
    /\ UNCHANGED <<analytics, now, scheduled, applied, sdk>>

\* the handler has answered; the worker takes the next request
Return(p) ==
    /\ pc[p] = "done"
    /\ pc' = [pc EXCEPT ![p] = "idle"]
    /\ loc' = [loc EXCEPT ![p] = InitLoc]
    /\ UNCHANGED <<txs, analytics, now, scheduled, applied, sdk>>

(***************************************************************************)
(* BatchingService.updateAnalytics('default', updates)                     *)
(***************************************************************************)
DappId == "default"

\* a JS number written to average_batch_size DECIMAL(10,2), in hundredths
Decimal2(num, den) == (2 * AvgScale * num + den) \div (2 * den)

\* the average the INSERT branch passes
InsertAverage(u) ==
    IF u.transactionCount # 0 /\ u.batchCount # 0
    THEN Decimal2(u.transactionCount, u.batchCount) ELSE 0
\* the average the UPDATE branch passes
UpdateAverageBad(current, newTotalBatches, newTotalTransactions) ==
    IF current.total_batches > 0
    THEN Decimal2(current.total_transactions, current.total_batches) ELSE 0
UpdateAverage(current, newTotalBatches, newTotalTransactions) ==
    IF newTotalBatches > 0
    THEN Decimal2(newTotalTransactions, newTotalBatches) ELSE 0

NewAnalyticsRow(u) ==
    [dapp_id |-> DappId, total_gas_saved |-> u.gasSaved,
     total_batches |-> u.batchCount, total_transactions |-> u.transactionCount,
     average_batch_size |-> InsertAverage(u)]
UpdatedAnalyticsRow(current, u) ==
    LET newTotalBatches == current.total_batches + u.batchCount
        newTotalTransactions == current.total_transactions + u.transactionCount
        newGasSaved == current.total_gas_saved + u.gasSaved
    IN  [dapp_id |-> DappId, total_gas_saved |-> newGasSaved,
         total_batches |-> newTotalBatches,
         total_transactions |-> newTotalTransactions,
         average_batch_size |-> UpdateAverage(current, newTotalBatches, newTotalTransactions),
         last_updated |-> now]

\* SELECT * FROM gas_analytics WHERE dapp_id = $1: the code reads rows[0] of
\* a result whose order SQL leaves open
AnalyticsSelect(p) ==
    /\ pc[p] = "analyticsSelect"
    /\ \E cur \in (IF analytics = <<>> THEN {<<>>} ELSE {<<r>> : r \in Range(analytics)}) :
         loc' = [loc EXCEPT ![p].cur = cur]
    /\ pc' = [pc EXCEPT ![p] = "analyticsWrite"]
    /\ UNCHANGED <<txs, analytics, now, scheduled, applied, sdk>>

\* the INSERT or the UPDATE ... WHERE dapp_id = $5 (every row of the scope),
\* then the return of the execution that called updateAnalytics
AnalyticsWrite(p) ==
    /\ pc[p] = "analyticsWrite"
    /\ analytics' =
         IF loc[p].cur = <<>>
         THEN Append(analytics, NewAnalyticsRow(loc[p].updates))
         ELSE [k \in 1..Len(analytics) |-> UpdatedAnalyticsRow(loc[p].cur[1], loc[p].updates)]
    /\ LET result == [NoResp EXCEPT !.success = TRUE, !.status = 200,
                         !.txHash = IF loc[p].txHashes = <<>> THEN Null ELSE loc[p].txHashes[1],
                         !.gasUsed = loc[p].totalGasUsed]
       IN  IF loc[p].op = "autoBatch"
           THEN /\ pc' = [pc EXCEPT ![p] = "autoLoop"]
                /\ loc' = [loc EXCEPT ![p].g = loc[p].g + 1, ![p].cur = <<>>,
                                      ![p].txns = <<>>, ![p].i = 0, ![p].txHashes = <<>>,
                                      ![p].totalGasUsed = 0, ![p].updates = NoUpdates]
           ELSE /\ pc' = [pc EXCEPT ![p] = "done"]
                /\ loc' = [loc EXCEPT ![p] = Answer(loc[p].op, NoBody, loc[p].batchId, result)]
    /\ applied' = [batchCount |-> applied.batchCount + loc[p].updates.batchCount,
                   transactionCount |-> applied.transactionCount + loc[p].updates.transactionCount,
                   gasSaved |-> applied.gasSaved + loc[p].updates.gasSaved]
    /\ UNCHANGED <<txs, now, scheduled, sdk>>

\* the model starts executions only while the counters are below MaxCount
TotalBatches(rows) ==
    IF rows = <<>> THEN 0
    ELSE CHOOSE n \in {rows[k].total_batches : k \in 1..Len(rows)} :
           \A k \in 1..Len(rows) : rows[k].total_batches <= n
MayExecute == TotalBatches(analytics) < MaxCount

(***************************************************************************)
(* BatchingService.executeImmediateTransaction(batchId, walletService)     *)
(***************************************************************************)
SetStatus(rows, ids, s) ==
    [k \in 1..Len(rows) |-> IF rows[k].batch_id \in ids
                            THEN [rows[k] EXCEPT !.status = s] ELSE rows[k]]
SetCompleted(rows, id, h) ==
    [k \in 1..Len(rows) |-> IF rows[k].batch_id = id
                            THEN [rows[k] EXCEPT !.status = "completed",
                                                 !.executed_at = now, !.tx_hash = h]
                            ELSE rows[k]]
SetFailedBad(rows, ids, e) ==
    [k \in 1..Len(rows) |-> IF rows[k].batch_id \in ids
                            THEN [rows[k] EXCEPT !.status = "failed"]
                            ELSE rows[k]]
SetFailed(rows, ids, e) ==
    [k \in 1..Len(rows) |-> IF rows[k].batch_id \in ids
                            THEN [rows[k] EXCEPT !.status = "failed", !.error_message = e]
                            ELSE rows[k]]

\* the rows of SELECT * FROM batched_transactions WHERE batch_id = $1
SelectByBatchIdBad(id) == 1..Len(txs)
SelectByBatchId(id) == RowsWithId(id)

\* the SELECT and the check of result.rows.length; loc.seen is the status
\* of the row read
ExecuteOneSelect(p) ==
    /\ pc[p] = "idle"
    /\ MayExecute
    /\ \E id \in BatchIds :
         IF SelectByBatchId(id) = {}
         THEN /\ pc' = [pc EXCEPT ![p] = "done"]
              /\ loc' = [loc EXCEPT ![p] = [InitLoc EXCEPT !.op = "executeOne", !.batchId = id,
                            !.resp = [NoResp EXCEPT !.status = 500,
                                                    !.error = "Transaction not found"]]]
         ELSE /\ pc' = [pc EXCEPT ![p] = "markExecuting"]
              /\ loc' = [loc EXCEPT ![p] = [InitLoc EXCEPT !.op = "executeOne", !.batchId = id,
                            !.seen = txs[CHOOSE k \in SelectByBatchId(id) : TRUE].status,
                            !.body = LET r == txs[CHOOSE k \in SelectByBatchId(id) : TRUE]
                                     IN  Body(r.user_address, r.to_address, r.amount,
                                              r.token_address, r.scheduled_for)]]
    /\ UNCHANGED <<txs, analytics, now, scheduled, applied, sdk>>

\* UPDATE ... SET status = 'executing', then BigInt(transaction.amount) and
\* the call of walletService.sendTransaction
ExecuteOneMarkBad(p) ==
    /\ pc[p] = "markExecuting"
    /\ \E k \in RowsWithId(loc[p].batchId) : txs[k].status = "pending"
    /\ txs' = SetStatus(txs, {loc[p].batchId}, "executing")
    /\ pc' = [pc EXCEPT ![p] = "signer"]
    /\ loc' = [loc EXCEPT ![p].signerCalls = @ + 1,
                          ![p].amountInSHM = AmountInSHM(loc[p].body.amount)]
    /\ UNCHANGED <<analytics, now, scheduled, applied, sdk>>
ExecuteOneMark(p) ==
    /\ pc[p] = "markExecuting"
    /\ txs' = SetStatus(txs, {loc[p].batchId}, "executing")
    /\ IF BigIntParses(loc[p].body.amount)
       THEN /\ pc' = [pc EXCEPT ![p] = "signer"]
            /\ loc' = [loc EXCEPT ![p].signerCalls = @ + 1,
                                  ![p].amountInSHM = AmountInSHM(loc[p].body.amount)]
       ELSE /\ pc' = [pc EXCEPT ![p] = "catch"]
            /\ loc' = [loc EXCEPT ![p].resp = [NoResp EXCEPT !.error = "Cannot convert to a BigInt"]]
    /\ UNCHANGED <<analytics, now, scheduled, applied, sdk>>

\* sendTransaction resolves; after the wait the record is marked completed
ExecuteOneComplete(p) ==
    /\ pc[p] = "signer"
    /\ \E h \in Hashes :
         /\ txs' = SetCompleted(txs, loc[p].batchId, h)
         /\ loc' = [loc EXCEPT ![p].txHashes = <<h>>,
                               ![p].totalGasUsed = GasUsedPerTx,
                               ![p].updates = [batchCount |-> 1, transactionCount |-> 1,
                                   gasSaved |-> (GasUsedPerTx * SavingsPercent) \div 100]]
    /\ pc' = [pc EXCEPT ![p] = "analyticsSelect"]
    /\ UNCHANGED <<analytics, now, scheduled, applied, sdk>>

\* the catch block: sendTransaction (or the conversion before it) threw
ExecuteOneFail(p) ==
    /\ pc[p] \in {"signer", "catch"}
    /\ \E e \in (IF pc[p] = "signer" THEN ErrMsgs ELSE {loc[p].resp.error}) :
         /\ txs' = SetFailed(txs, {loc[p].batchId}, e)
         /\ loc' = [loc EXCEPT ![p] =
                        [Answer("executeOne", NoBody, loc[p].batchId,
                                [NoResp EXCEPT !.status = 500, !.error = e])
                           EXCEPT !.signerCalls = loc[p].signerCalls]]
    /\ pc' = [pc EXCEPT ![p] = "done"]
    /\ UNCHANGED <<analytics, now, scheduled, applied, sdk>>

(***************************************************************************)
(* BatchingService.executeBatch(transactions)                              *)
(***************************************************************************)
QueryOutcomes == {"ok", "error"}     \* a query resolves or rejects

\* lists of distinct stored batch ids a caller may pass
InjectiveSeqs(S) ==
    UNION { {f \in [1..n -> S] : \A a, b \in 1..n : a # b => f[a] # f[b]} :
            n \in 0..Cardinality(S) }

\* gasSaved of the analytics update after the loop
BatchUpdates(n, totalGasUsed) ==
    [batchCount |-> 1, transactionCount |-> n,
     gasSaved |-> (totalGasUsed * SavingsPercent) \div 100]

\* the empty-list check, else UPDATE ... SET status = 'executing'
\* WHERE batch_id = ANY($1)
ExecuteBatchMark(p) ==
    /\ pc[p] = "idle"
    /\ MayExecute
    /\ \E transactions \in InjectiveSeqs(StoredIds) :
         IF Len(transactions) = 0
         THEN /\ txs' = txs
              /\ pc' = [pc EXCEPT ![p] = "done"]
              /\ loc' = [loc EXCEPT ![p] = [InitLoc EXCEPT !.op = "executeBatch",
                            !.resp = [NoResp EXCEPT !.status = 500,
                                                    !.error = "No transactions to execute"]]]
         ELSE /\ txs' = SetStatus(txs, Range(transactions), "executing")
              /\ pc' = [pc EXCEPT ![p] = "batchLoop"]
              /\ loc' = [loc EXCEPT ![p] = [InitLoc EXCEPT !.op = "executeBatch",
                                               !.txns = transactions, !.i = 1]]
    /\ UNCHANGED <<analytics, now, scheduled, applied, sdk>>

\* one iteration of "for (const tx of transactions)": the hash is pushed
\* and the gas added before the UPDATE, whose rejection the inner catch
\* records on the transaction; after the last one updateAnalytics is called
ExecuteBatchLoop(p, hashes) ==
    /\ pc[p] = "batchLoop"
    /\ \E mockTxHash \in hashes, outcome \in QueryOutcomes, e \in ErrMsgs :
         LET tx == loc[p].txns[loc[p].i]
             totalGasUsed == loc[p].totalGasUsed + GasUsedPerTx
             last == loc[p].i = Len(loc[p].txns)
         IN  /\ txs' = IF outcome = "ok" THEN SetCompleted(txs, tx, mockTxHash)
                       ELSE SetFailed(txs, {tx}, e)
             /\ loc' = [loc EXCEPT ![p].txHashes = Append(@, mockTxHash),
                                   ![p].totalGasUsed = totalGasUsed,
                                   ![p].i = @ + 1,
                                   ![p].updates = IF last
                                       THEN BatchUpdates(Len(loc[p].txns), totalGasUsed)
                                       ELSE NoUpdates]
             /\ pc' = [pc EXCEPT ![p] = IF last THEN "analyticsSelect" ELSE "batchLoop"]
    /\ UNCHANGED <<analytics, now, scheduled, applied, sdk>>

\* "UPDATE ... SET status = 'executing' WHERE batch_id = ANY($1)" rejects:
\* the outer catch is entered with the error
ExecuteBatchMarkRejected(p) ==
    /\ pc[p] = "idle"
    /\ MayExecute
    /\ \E transactions \in InjectiveSeqs(StoredIds), e \in ErrMsgs :
         /\ Len(transactions) > 0
         /\ loc' = [loc EXCEPT ![p] = [InitLoc EXCEPT !.op = "executeBatch",
                        !.txns = transactions, !.resp = [NoResp EXCEPT !.error = e]]]
    /\ pc' = [pc EXCEPT ![p] = "batchCatch"]
    /\ UNCHANGED <<txs, analytics, now, scheduled, applied, sdk>>

\* an iteration whose UPDATE to completed rejects and whose UPDATE to failed
\* in the inner catch rejects too: the error leaves the loop
ExecuteBatchLoopRejected(p, hashes) ==
    /\ pc[p] = "batchLoop"
    /\ loc[p].op = "executeBatch"
    /\ \E mockTxHash \in hashes, e \in ErrMsgs :
         loc' = [loc EXCEPT ![p].txHashes = Append(@, mockTxHash),
                            ![p].totalGasUsed = @ + GasUsedPerTx,
                            ![p].resp = [NoResp EXCEPT !.error = e]]
    /\ pc' = [pc EXCEPT ![p] = "batchCatch"]
    /\ UNCHANGED <<txs, analytics, now, scheduled, applied, sdk>>

\* a query of updateAnalytics rejects: its finally releases the client and
\* the error reaches the outer catch of executeBatch
AnalyticsRejected(p) ==
    /\ pc[p] \in {"analyticsSelect", "analyticsWrite"}
    /\ loc[p].op = "executeBatch"
    /\ \E e \in ErrMsgs :
         loc' = [loc EXCEPT ![p].resp = [NoResp EXCEPT !.error = e]]
    /\ pc' = [pc EXCEPT ![p] = "batchCatch"]
    /\ UNCHANGED <<txs, analytics, now, scheduled, applied, sdk>>

\* the outer catch: UPDATE ... SET status = 'failed', error_message = $1
\* WHERE batch_id = ANY($2), then the failure is returned; when this UPDATE
\* rejects as well the method throws
ExecuteBatchCatch(p) ==
    /\ pc[p] = "batchCatch"
    /\ \E outcome \in QueryOutcomes :
         txs' = IF outcome = "ok"
                THEN SetFailed(txs, Range(loc[p].txns), loc[p].resp.error)
                ELSE txs
    /\ loc' = [loc EXCEPT ![p] = Answer("executeBatch", NoBody, Null,
                    [NoResp EXCEPT !.status = 500, !.error = loc[p].resp.error])]
    /\ pc' = [pc EXCEPT ![p] = "done"]
    /\ UNCHANGED <<analytics, now, scheduled, applied, sdk>>

(***************************************************************************)
(* BatchingService.optimizeBatch and processAutoBatching                   *)
(***************************************************************************)
\* `${tx.toAddress}_${tx.tokenAddress || 'native'}`
NativeKey == <<"n", "a", "t", "i", "v", "e">>
GroupKeyBad(tx) == tx.to_address
GroupKey(tx) ==
    tx.to_address \o <<"_">>
       \o (IF tx.token_address = Missing THEN NativeKey ELSE tx.token_address)

AddToGroups(groups, tx) ==
    IF \E k \in 1..Len(groups) : GroupKey(groups[k][1]) = GroupKey(tx)
    THEN LET k == CHOOSE k \in 1..Len(groups) : GroupKey(groups[k][1]) = GroupKey(tx)
         IN  [groups EXCEPT ![k] = Append(@, tx)]
    ELSE Append(groups, <<tx>>)

RECURSIVE GroupsOf(_)
GroupsOf(transactions) ==
    IF transactions = <<>> THEN <<>>
    ELSE AddToGroups(GroupsOf(SubSeq(transactions, 1, Len(transactions) - 1)),
                     transactions[Len(transactions)])

RECURSIVE GroupTotal(_)
GroupTotal(group) ==
    IF group = <<>> THEN 0
    ELSE BigIntOf(group[1].amount).val + GroupTotal(Tail(group))

\* "return bTotal > aTotal ? 1 : -1"
ComparatorBad(a, b) == IF GroupTotal(a) > GroupTotal(b) THEN 1 ELSE -1
Comparator(a, b) == IF GroupTotal(b) > GroupTotal(a) THEN 1 ELSE -1

\* Array.prototype.sort: the orders in which the comparator puts no later
\* element before an earlier one.  The comparator never answers 0, so the
\* place of equal totals is left to the sort
SortedByTotal(groups) ==
    { s \in InjectiveSeqs(Range(groups)) :
        /\ Len(s) = Len(groups)
        /\ \A a, b \in 1..Len(s) : a < b => Comparator(s[a], s[b]) < 0 }

\* BigInt(tx.amount) throws inside the comparator
OptimizeThrows(transactions) ==
    /\ Len(GroupsOf(transactions)) >= 2
    /\ \E k \in 1..Len(transactions) : ~BigIntOf(transactions[k].amount).ok

OptimizeBatch(transactions) == SortedByTotal(GroupsOf(transactions))

\* SELECT ... WHERE status = 'pending' ORDER BY created_at ASC LIMIT $1
GetPendingTransactions(limit) ==
    LET pending == SelectSeq(txs, LAMBDA r : r.status = "pending")
    IN  SubSeq(pending, 1, IF Len(pending) < limit THEN Len(pending) ELSE limit)

IdsOf(group) == [k \in 1..Len(group) |-> group[k].batch_id]

\* config.minTransactionCount, which both the volume check and the loop
\* compare with
MinCountBad(config) == 1
MinCount(config) == config.minTransactionCount
Configs == [maxBatchSize : 1..MaxTxs, minTransactionCount : 1..MaxTxs]

\* getPendingTransactions, the volume check and optimizeBatch
AutoBatchStart(p, configs) ==
    /\ pc[p] = "idle"
    /\ MayExecute
    /\ \E config \in configs :
         LET pendingTransactions == GetPendingTransactions(config.maxBatchSize) IN
         IF Len(pendingTransactions) < MinCount(config)
         THEN /\ pc' = [pc EXCEPT ![p] = "done"]
              /\ loc' = [loc EXCEPT ![p] = [InitLoc EXCEPT !.op = "autoBatch", !.config = config]]
         ELSE IF OptimizeThrows(pendingTransactions)
         THEN /\ pc' = [pc EXCEPT ![p] = "done"]
              /\ loc' = [loc EXCEPT ![p] = [InitLoc EXCEPT !.op = "autoBatch", !.config = config,
                            !.resp = [NoResp EXCEPT !.error = "Cannot convert to a BigInt"]]]
         ELSE \E optimizedBatches \in OptimizeBatch(pendingTransactions) :
              /\ pc' = [pc EXCEPT ![p] = "autoLoop"]
              /\ loc' = [loc EXCEPT ![p] = [InitLoc EXCEPT !.op = "autoBatch", !.config = config,
                            !.groups = [k \in 1..Len(optimizedBatches) |-> IdsOf(optimizedBatches[k])],
                            !.g = 1]]
    /\ UNCHANGED <<txs, analytics, now, scheduled, applied, sdk>>

\* "for (const batch of optimizedBatches)": groups below minTransactionCount
\* are passed over, the next one that reaches it is handed to executeBatch
AutoBatchLoop(p) ==
    /\ pc[p] = "autoLoop"
    /\ LET large == {k \in loc[p].g..Len(loc[p].groups) :
                        Len(loc[p].groups[k]) >= MinCount(loc[p].config)}
       IN  IF large = {}
           THEN /\ txs' = txs
                /\ pc' = [pc EXCEPT ![p] = "done"]
                /\ loc' = [loc EXCEPT ![p] = [InitLoc EXCEPT !.op = "autoBatch",
                                                  !.config = loc[p].config]]
           ELSE LET k == CHOOSE k \in large : \A j \in large : k <= j IN
                /\ txs' = SetStatus(txs, Range(loc[p].groups[k]), "executing")
                /\ pc' = [pc EXCEPT ![p] = "batchLoop"]
                /\ loc' = [loc EXCEPT ![p].g = k, ![p].txns = loc[p].groups[k], ![p].i = 1]
    /\ UNCHANGED <<analytics, now, scheduled, applied, sdk>>

(***************************************************************************)
(* BatchingService.createScheduledBatch and the clock                      *)
(***************************************************************************)
Times == 0..MaxTime
Frequencies == {"once", "daily", "weekly", "monthly"}
ScheduledIdsStored == {scheduled[k].batch_id : k \in 1..Len(scheduled)}
\* generateBatchId, as for the queue: a stored id or the first unused one
ScheduledIdsGenerated ==
    ScheduledIdsStored \cup (IF BatchIds \subseteq ScheduledIdsStored THEN {}
                             ELSE {CHOOSE id \in BatchIds \ ScheduledIdsStored :
                                     \A other \in BatchIds \ ScheduledIdsStored :
                                        IdNum[id] <= IdNum[other]})

\* the row an INSERT INTO scheduled_batches creates: the listed columns from
\* the parameters, the others from the column defaults
NewScheduledRow(batchId, dappId, executionTime, frequency) ==
    [batch_id |-> batchId, dapp_id |-> dappId, execution_time |-> executionTime,
     frequency |-> frequency, status |-> "scheduled", transaction_count |-> 0,
     estimated_gas |-> 0, created_at |-> now]

\* createScheduledBatch(dappId, executionTime, frequency): the INSERT, which
\* the UNIQUE constraint on batch_id may reject
CreateScheduledBatch(p, times, frequencies) ==
    /\ pc[p] = "idle"
    /\ Len(scheduled) < MaxTxs
    /\ \E batchId \in ScheduledIdsGenerated, executionTime \in times, frequency \in frequencies :
         IF batchId \in ScheduledIdsStored
         THEN /\ scheduled' = scheduled
              /\ loc' = [loc EXCEPT ![p] = Answer("createScheduledBatch", NoBody, Null,
                            [NoResp EXCEPT !.error = "Failed to create scheduled batch"])]
         ELSE /\ scheduled' = Append(scheduled,
                                  NewScheduledRow(batchId, DappId, executionTime, frequency))
              /\ loc' = [loc EXCEPT ![p] = Answer("createScheduledBatch", NoBody, batchId,
                            [NoResp EXCEPT !.success = TRUE, !.batchId = batchId])]
    /\ pc' = [pc EXCEPT ![p] = "done"]
    /\ UNCHANGED <<txs, analytics, now, applied, sdk>>

\* SELECT * FROM scheduled_batches WHERE execution_time <= NOW() AND
\* status = 'scheduled' ORDER BY execution_time ASC: the ids of the result
GetReadyBatches(p) ==
    /\ pc[p] = "idle"
    /\ scheduled # <<>>
    /\ LET ready == {k \in 1..Len(scheduled) :
                       scheduled[k].execution_time <= now /\ scheduled[k].status = "scheduled"}
       IN  \E order \in InjectiveSeqs(ready) :
             /\ Len(order) = Cardinality(ready)
             /\ \A a, b \in 1..Len(order) :
                  a < b => scheduled[order[a]].execution_time <= scheduled[order[b]].execution_time
             /\ loc' = [loc EXCEPT ![p] = [InitLoc EXCEPT !.op = "getReadyBatches",
                           !.txns = [k \in 1..Len(order) |-> scheduled[order[k]].batch_id]]]
    /\ pc' = [pc EXCEPT ![p] = "done"]
    /\ UNCHANGED <<txs, analytics, now, scheduled, applied, sdk>>

\* NOW() advances
Tick ==
    /\ now < MaxTime
    /\ now' = now + 1
    /\ UNCHANGED <<txs, analytics, pc, loc, scheduled, applied, sdk>>

(***************************************************************************)
(* The connection pool "new Pool({...})"                                   *)
(***************************************************************************)
\* the pool's size (pg's max), here as many clients as there are handlers
PoolSize == Cardinality(Procs)
\* the clients a suspended handler holds: the one its method took with
\* "await pool.connect()" and, inside updateAnalytics, a second one
Held(p) ==
    CASE pc[p] \in {"insert", "markExecuting", "signer", "catch", "batchLoop",
                    "batchCatch", "analyticsSelect"} -> 1
      [] pc[p] = "analyticsWrite" -> 2
      [] OTHER -> 0
RECURSIVE HeldBy(_)
HeldBy(S) ==
    IF S = {} THEN 0
    ELSE LET p == CHOOSE q \in S : TRUE IN Held(p) + HeldBy(S \ {p})
Free == PoolSize - HeldBy(Procs)
\* "await pool.connect()" resolves when the pool has an idle client or room
\* for a new one; no connectionTimeoutMillis is configured, so until then
\* the caller waits
PoolConnect == Free > 0

(***************************************************************************)
(* GasGuruSDK: autoBatch, scheduleDelayedBatch, the timers and destroy.    *)
(* sdk.transactions is the argument of the autoBatch call and the other    *)
(* fields name a transaction by its index there; sdk.armed are the timers  *)
(* set and neither fired nor cleared, sdk.running the timer callbacks that  *)
(* await their addToBatch, sdk.submitted the calls of addToBatch so far.    *)
(***************************************************************************)
TransactionRequest(from, to, amount, tokenAddress) ==
    [from |-> from, to |-> to, amount |-> amount, tokenAddress |-> tokenAddress]
\* `${tx.to}_${tx.tokenAddress || 'native'}`
SdkKey(tx) ==
    tx.to \o <<"_">> \o (IF tx.tokenAddress = Missing THEN NativeKey ELSE tx.tokenAddress)

\* groupTransactions: the groups in the order of their first transaction
RECURSIVE GroupTransactions(_, _)
GroupTransactions(transactions, n) ==
    IF n = 0 THEN <<>>
    ELSE LET groups == GroupTransactions(transactions, n - 1)
             same == {k \in 1..Len(groups) :
                        SdkKey(transactions[groups[k][1]]) = SdkKey(transactions[n])}
         IN  IF same = {} THEN Append(groups, <<n>>)
             ELSE [groups EXCEPT ![CHOOSE k \in same : TRUE] = Append(@, n)]

\* this.addToBatch(tx) is called: the POST is sent
Submit(submitted, k, by) ==
    Append(submitted, [tx |-> k, by |-> by, afterDestroy |-> sdk.destroyed])

\* the loop variables after the transaction at groups[g][j]
Advance(s) ==
    IF s.j < Len(s.groups[s.g]) THEN [s EXCEPT !.j = s.j + 1, !.pc = "loop"]
    ELSE IF s.g < Len(s.groups) THEN [s EXCEPT !.g = s.g + 1, !.j = 1, !.pc = "loop"]
    ELSE [s EXCEPT !.pc = "done"]

\* autoBatch(transactions) up to its loop
SdkAutoBatch(inputs) ==
    /\ sdk.pc = "idle"
    /\ \E transactions \in inputs :
         LET groups == GroupTransactions(transactions, Len(transactions)) IN
         sdk' = [sdk EXCEPT !.transactions = transactions, !.groups = groups,
                            !.g = 1, !.j = 1,
                            !.pc = IF groups = <<>> THEN "done" ELSE "loop"]
    /\ UNCHANGED <<txs, analytics, now, pc, loc, scheduled, applied>>

\* the next transaction of the loop: in a group of two or more it is handed
\* to addToBatch, for a single one getGasOptimization is awaited first
SdkLoop ==
    /\ sdk.pc = "loop"
    /\ LET group == sdk.groups[sdk.g] IN
       IF Len(group) >= 2
       THEN sdk' = Advance([sdk EXCEPT !.submitted = Submit(@, group[sdk.j], "call")])
       ELSE sdk' = [sdk EXCEPT !.pc = "optimization"]
    /\ UNCHANGED <<txs, analytics, now, pc, loc, scheduled, applied>>

\* scheduleDelayedBatch(transaction)
ScheduleDelayedBatch(s, k) ==
    LET key == SdkKey(s.transactions[k]) IN
    IF \E e \in s.pendingTransactions : e.key = key THEN s
    ELSE [s EXCEPT !.pendingTransactions = @ \cup {[key |-> key, tx |-> k]},
                   !.armed = @ \cup {key},
                   !.batchTimeouts = @ \cup {key}]

\* getGasOptimization has answered: when it advises batching the delayed
\* batch is scheduled, and in both cases addToBatch(group[0]) is called
SdkOptimized ==
    /\ sdk.pc = "optimization"
    /\ \E shouldBatch \in BOOLEAN :
         LET k == sdk.groups[sdk.g][1]
             s == IF shouldBatch THEN ScheduleDelayedBatch(sdk, k) ELSE sdk
         IN  sdk' = Advance([s EXCEPT !.submitted = Submit(@, k, "call")])
    /\ UNCHANGED <<txs, analytics, now, pc, loc, scheduled, applied>>

\* a timer fires: "if (pendingTx) await this.addToBatch(pendingTx)"
SdkTimer ==
    /\ \E key \in sdk.armed :
         LET pendingTx == {e \in sdk.pendingTransactions : e.key = key} IN
         IF pendingTx = {}
         THEN sdk' = [sdk EXCEPT !.armed = @ \ {key}]
         ELSE sdk' = [sdk EXCEPT !.armed = @ \ {key}, !.running = @ \cup {key},
                         !.submitted = Submit(@, (CHOOSE e \in pendingTx : TRUE).tx, "timer")]
    /\ UNCHANGED <<txs, analytics, now, pc, loc, scheduled, applied>>

\* the addToBatch of a timer callback has answered: both map entries of
\* the key are deleted
SdkTimerDone ==
    /\ \E key \in sdk.running :
         sdk' = [sdk EXCEPT !.running = @ \ {key},
                            !.pendingTransactions = {e \in @ : e.key # key},
                            !.batchTimeouts = @ \ {key}]
    /\ UNCHANGED <<txs, analytics, now, pc, loc, scheduled, applied>>

\* destroy(): clearTimeout for every entry of batchTimeouts, then both
\* maps are cleared
SdkDestroy ==
    /\ ~sdk.destroyed
    /\ sdk' = [sdk EXCEPT !.armed = @ \ sdk.batchTimeouts, !.batchTimeouts = {},
                          !.pendingTransactions = {}, !.destroyed = TRUE]
    /\ UNCHANGED <<txs, analytics, now, pc, loc, scheduled, applied>>

PostRequest == \E p \in PostProcs : PostBatch(p, RequestBodies, RpcGas)
PostInsert == \E p \in PostProcs : InsertTx(p)
PostReturn == \E p \in PostProcs : Return(p)

Enqueue == \E p \in Procs : PostBatch(p, QueueBodies, {DefaultGas})
EnqueueInsert == \E p \in Procs : InsertTx(p)
Respond == \E p \in Procs : Return(p)
ExecuteOne ==
    \E p \in Procs : ExecuteOneSelect(p) \/ ExecuteOneMark(p) \/ ExecuteOneComplete(p)
                       \/ ExecuteOneFail(p)
ExecuteBatch ==
    \E p \in Procs : ExecuteBatchMark(p) \/ ExecuteBatchLoop(p, Hashes)
UpdateAnalytics == \E p \in Procs : AnalyticsSelect(p) \/ AnalyticsWrite(p)
AutoProcess == \E p \in Procs : AutoBatchStart(p, Configs) \/ AutoBatchLoop(p)

Next ==
    \/ Enqueue \/ EnqueueInsert \/ Respond
    \/ ExecuteOne \/ ExecuteBatch \/ UpdateAnalytics \/ AutoProcess
Spec == Init /\ [][Next]_vars

NextPost == PostRequest \/ PostInsert \/ PostReturn
SpecPost == Init /\ [][NextPost]_vars

\* executeImmediateTransaction called by concurrent handlers while records
\* are enqueued
NextOne == Enqueue \/ EnqueueInsert \/ Respond \/ ExecuteOne \/ UpdateAnalytics
SpecOne == Init /\ [][NextOne]_vars

\* executeBatch called by one handler, with distinct transaction hashes and
\* with queries that may reject
BatchProcs == {1}
BatchHashes == {"0xh1", "0xh2"}
BatchEnqueue == \E p \in BatchProcs : PostBatch(p, QueueBodies, {DefaultGas})
BatchInsert == \E p \in BatchProcs : InsertTx(p)
BatchRespond == \E p \in BatchProcs : Return(p)
BatchExecute ==
    \E p \in BatchProcs : ExecuteBatchMark(p) \/ ExecuteBatchLoop(p, BatchHashes)
BatchRejected ==
    \E p \in BatchProcs :
       \/ ExecuteBatchMarkRejected(p)
       \/ ExecuteBatchLoopRejected(p, BatchHashes)
       \/ AnalyticsRejected(p)
       \/ ExecuteBatchCatch(p)
BatchAnalytics == \E p \in BatchProcs : AnalyticsSelect(p) \/ AnalyticsWrite(p)
NextBatch ==
    \/ BatchEnqueue \/ BatchInsert \/ BatchRespond
    \/ BatchExecute \/ BatchRejected \/ BatchAnalytics
SpecBatch == Init /\ [][NextBatch]_vars

\* processAutoBatching called by one handler on a queue of pending records
\* that differ in token and amount
AutoProcs == {1}
AutoQueueLen == MaxTxs + 1
AutoBodies ==
    { Body(AddrA, AddrB, <<"1">>, k, NoTime) : k \in {Missing, TokenT} }
    \cup { Body(AddrA, AddrB, a, Missing, NoTime) : a \in FractionAmounts }
AutoConfigs == [maxBatchSize : 1..AutoQueueLen, minTransactionCount : 1..MaxTxs]
IdOf(k) == CHOOSE id \in BatchIds : IdNum[id] = k
\* the queue that enqueueing the bodies one after the other leaves
QueueOf(bodies) ==
    [k \in 1..Len(bodies) |->
        NewTxRow(IdOf(k), bodies[k].userAddress, bodies[k].toAddress, bodies[k].amount,
                 bodies[k].tokenAddress, DefaultGas, bodies[k].scheduledFor)]
InitAuto ==
    /\ txs \in { QueueOf(bodies) :
                  bodies \in UNION { [1..n -> AutoBodies] : n \in 0..AutoQueueLen } }
    /\ analytics = <<>>
    /\ now = 0
    /\ pc = [p \in Procs |-> "idle"]
    /\ loc = [p \in Procs |-> InitLoc]
    /\ scheduled = <<>>
    /\ applied = NoUpdates
    /\ sdk = InitSdk
AutoStart == \E p \in AutoProcs : AutoBatchStart(p, AutoConfigs)
AutoLoop == \E p \in AutoProcs : AutoBatchLoop(p)
AutoExecute == \E p \in AutoProcs : ExecuteBatchLoop(p, Hashes)
AutoAnalytics == \E p \in AutoProcs : AnalyticsSelect(p) \/ AnalyticsWrite(p)
AutoRespond == \E p \in AutoProcs : Return(p)
NextAuto == AutoStart \/ AutoLoop \/ AutoExecute \/ AutoAnalytics \/ AutoRespond
SpecAuto == InitAuto /\ [][NextAuto]_vars

\* optimizeBatch applied to lists of records that differ in recipient, token
\* and amount
AddrC == Addr("c")
InitOptimize ==
    /\ txs \in { QueueOf(bodies) :
                  bodies \in UNION { [1..n -> { Body(AddrA, t, a, k, NoTime) :
                                                  t \in {AddrB, AddrC},
                                                  a \in {<<"1">>, <<"2">>} \cup FractionAmounts,
                                                  k \in {Missing, NativeKey, TokenT} }] :
                                     n \in 0..AutoQueueLen } }
    /\ analytics = <<>>
    /\ now = 0
    /\ pc = [p \in Procs |-> "idle"]
    /\ loc = [p \in Procs |-> InitLoc]
    /\ scheduled = <<>>
    /\ applied = NoUpdates
    /\ sdk = InitSdk
\* one call of optimizeBatch on the stored records, which either throws
\* inside the comparator or returns the groups
Optimize(p) ==
    /\ pc[p] = "idle"
    /\ IF OptimizeThrows(txs)
       THEN loc' = [loc EXCEPT ![p] = [InitLoc EXCEPT !.op = "optimizeBatch", !.txns = IdsOf(txs),
                        !.ret = "throw",
                        !.resp = [NoResp EXCEPT !.error = "Cannot convert to a BigInt"]]]
       ELSE \E result \in OptimizeBatch(txs) :
              loc' = [loc EXCEPT ![p] = [InitLoc EXCEPT !.op = "optimizeBatch", !.txns = IdsOf(txs),
                        !.ret = "return",
                        !.groups = [k \in 1..Len(result) |-> IdsOf(result[k])]]]
    /\ pc' = [pc EXCEPT ![p] = "done"]
    /\ UNCHANGED <<txs, analytics, now, scheduled, applied, sdk>>
NextOptimize == (\E p \in AutoProcs : Optimize(p)) \/ AutoRespond
SpecOptimize == InitOptimize /\ [][NextOptimize]_vars

\* createScheduledBatch and getReadyBatches called by one handler while
\* the clock advances
NextSchedule ==
    \/ \E p \in AutoProcs : CreateScheduledBatch(p, Times, Frequencies)
    \/ \E p \in AutoProcs : GetReadyBatches(p)
    \/ AutoRespond
    \/ Tick
SpecSchedule == Init /\ [][NextSchedule]_vars

\* the operations called by concurrent handlers that share the pool: each
\* step that starts with "await pool.connect()" waits for a free client
PoolEnqueue == \E p \in Procs : PoolConnect /\ PostBatch(p, QueueBodies, {DefaultGas})
PoolExecuteOne ==
    \E p \in Procs :
       \/ PoolConnect /\ ExecuteOneSelect(p)
       \/ ExecuteOneMark(p) \/ ExecuteOneComplete(p) \/ ExecuteOneFail(p)
PoolExecuteBatch ==
    \E p \in Procs :
       \/ ExecuteBatchMark(p) /\ (pc'[p] = "batchLoop" => PoolConnect)
       \/ ExecuteBatchLoop(p, Hashes)
PoolAnalytics ==
    \E p \in Procs : (PoolConnect /\ AnalyticsSelect(p)) \/ AnalyticsWrite(p)
NextPool ==
    \/ PoolEnqueue \/ EnqueueInsert \/ Respond
    \/ PoolExecuteOne \/ PoolExecuteBatch \/ PoolAnalytics
SpecPool == Init /\ [][NextPool]_vars

\* processAutoBatching called by one handler, while the clock advances, on
\* a queue of pending records some of which were enqueued with a
\* scheduledFor in the future
InitLater ==
    /\ txs \in { QueueOf(bodies) :
                  bodies \in UNION { [1..n -> { Body(AddrA, AddrB, <<"1">>, k, s) :
                                                  k \in {Missing, TokenT},
                                                  s \in {NoTime, MaxTime} }] :
                                     n \in 0..AutoQueueLen } }
    /\ analytics = <<>>
    /\ now = 0
    /\ pc = [p \in Procs |-> "idle"]
    /\ loc = [p \in Procs |-> InitLoc]
    /\ scheduled = <<>>
    /\ applied = NoUpdates
    /\ sdk = InitSdk
NextLater == AutoStart \/ AutoLoop \/ AutoExecute \/ AutoAnalytics \/ AutoRespond \/ Tick
SpecLater == InitLater /\ [][NextLater]_vars

\* executeImmediateTransaction called by one handler on records whose
\* amounts are around 10^18 of the smallest unit
ConvertAmounts ==
    { <<"1">>, <<"1">> \o Rep("0", ShmDecimals), <<"2">> \o Rep("0", ShmDecimals),
      <<"1", "5">> \o Rep("0", ShmDecimals - 1),
      Rep("9", ShmDecimals),
      <<"1">> \o Rep("0", ShmDecimals - 1) \o <<"1">> }
    \cup FractionAmounts
InitConvert ==
    /\ txs \in { QueueOf(bodies) :
                  bodies \in UNION { [1..n -> { Body(AddrA, AddrB, a, Missing, NoTime) :
                                                  a \in ConvertAmounts }] :
                                     n \in 1..MaxTxs } }
    /\ analytics = <<>>
    /\ now = 0
    /\ pc = [p \in Procs |-> "idle"]
    /\ loc = [p \in Procs |-> InitLoc]
    /\ scheduled = <<>>
    /\ applied = NoUpdates
    /\ sdk = InitSdk
ConvertExecute ==
    \E p \in AutoProcs :
       ExecuteOneSelect(p) \/ ExecuteOneMark(p) \/ ExecuteOneComplete(p) \/ ExecuteOneFail(p)
NextConvert == ConvertExecute \/ AutoAnalytics \/ AutoRespond
SpecConvert == InitConvert /\ [][NextConvert]_vars

\* one autoBatch call of a client on lists of transactions of two
\* recipients and two tokens, its timers, and destroy
SdkInputs ==
    UNION { [1..n -> { TransactionRequest(AddrA, t, <<"1">>, k) :
                         t \in {AddrB, AddrC}, k \in {Missing, TokenT} }] : n \in 0..MaxTxs }
NextSdk == SdkAutoBatch(SdkInputs) \/ SdkLoop \/ SdkOptimized \/ SdkTimer \/ SdkTimerDone \/ SdkDestroy
SpecSdk == Init /\ [][NextSdk]_vars

(***************************************************************************)
(* Properties.                                                             *)
(***************************************************************************)
Terminal == {"completed", "failed"}
PermittedTransitions ==
    { <<"pending", "scheduled">>, <<"pending", "executing">>,
      <<"scheduled", "executing">>, <<"executing", "completed">>,
      <<"executing", "failed">> }

\* C1: once a record's status is completed or failed, no step of any
\* operation changes its status, txHash or errorMessage.
C1_TerminalRecordsFrozen ==
    [][\A k \in 1..Len(txs) :
         txs[k].status \in Terminal =>
           /\ txs'[k].status = txs[k].status
           /\ txs'[k].tx_hash = txs[k].tx_hash
           /\ txs'[k].error_message = txs[k].error_message]_vars

\* C2: every change of a record's status is one of the permitted
\* transitions of the lifecycle.
C2_OnlyPermittedTransitions ==
    [][\A k \in 1..Len(txs) :
         txs'[k].status # txs[k].status =>
           <<txs[k].status, txs'[k].status>> \in PermittedTransitions]_vars

\* C3: in every state, for every record, txHash is set iff executedAt is
\* set, both only when the status is completed, and errorMessage is set
\* only when the status is failed.
C3_OutcomeFieldsMatchStatus ==
    \A k \in 1..Len(txs) :
      /\ (txs[k].tx_hash # Null) <=> (txs[k].executed_at # NoTime)
      /\ txs[k].tx_hash # Null => txs[k].status = "completed"
      /\ txs[k].error_message # Null => txs[k].status = "failed"

\* C4: the step that persists a record for a successful enqueue adds one
\* row, with the returned batch id, in status pending and with no txHash,
\* executedAt or errorMessage, whatever token address and schedule the
\* request carried.
EnqueueSucceeds(p) ==
    pc[p] = "insert" /\ pc'[p] = "done" /\ loc'[p].resp.success
C4_EnqueuedRecordIsPending ==
    [][\A p \in Procs :
         EnqueueSucceeds(p) =>
           /\ Len(txs') = Len(txs) + 1
           /\ LET r == txs'[Len(txs')] IN
                /\ r.batch_id = loc'[p].resp.batchId
                /\ r.token_address = loc[p].body.tokenAddress
                /\ r.scheduled_for = loc[p].body.scheduledFor
                /\ r.status = "pending"
                /\ r.tx_hash = Null
                /\ r.executed_at = NoTime
                /\ r.error_message = Null]_vars
\* an enqueue with a token address and a schedule has been answered with
\* success and its record is in the store
C4_Witness ==
    \E p \in Procs :
      /\ pc[p] = "done" /\ loc[p].op = "post" /\ loc[p].resp.success
      /\ loc[p].body.tokenAddress # Missing
      /\ loc[p].body.scheduledFor # NoTime
      /\ \E k \in 1..Len(txs) :
           txs[k].batch_id = loc[p].resp.batchId /\ txs[k].status = "pending"

\* C5: no two records of the store share a batchId, and a successful
\* enqueue returns an identifier that no stored record had before it.
NoSharedBatchId ==
    \A j, k \in 1..Len(txs) : j # k => txs[j].batch_id # txs[k].batch_id
C5_BatchIdsUnique ==
    /\ []NoSharedBatchId
    /\ [][\A p \in Procs :
            EnqueueSucceeds(p) =>
              /\ loc'[p].resp.batchId \notin StoredIds
              /\ \A k \in 1..Len(txs) : txs'[k] = txs[k]]_vars
\* generateBatchId returned a stored identifier and the enqueue was refused
C5_Witness ==
    \E p \in Procs :
      /\ pc[p] = "done" /\ loc[p].op = "post" /\ loc[p].resp.status = 500
      /\ loc[p].batchId \in StoredIds
      /\ NoSharedBatchId

\* C6: a POST /batch whose userAddress or toAddress does not match the
\* address pattern, or whose amount is missing, not a number or not greater
\* than zero, is answered 400 in the step that receives it, which persists
\* nothing and makes no gas-estimation call.
MalformedRequest(b) ==
    \/ ~AddressRegexTest(b.userAddress)
    \/ ~AddressRegexTest(b.toAddress)
    \/ b.amount = Missing
    \/ NumberOf(b.amount).nan
    \/ NumberOf(b.amount).sgn <= 0
ReceivesPost(p) == pc[p] = "idle" /\ pc'[p] # "idle" /\ loc'[p].op = "post"
C6_MalformedRequestRejected ==
    [][\A p \in Procs :
         ReceivesPost(p) /\ MalformedRequest(loc'[p].body) =>
           /\ pc'[p] = "done"
           /\ loc'[p].resp.status = 400
           /\ ~loc'[p].resp.success
           /\ ~loc'[p].rpcCalled
           /\ txs' = txs]_vars
\* a request with a non-positive amount has been answered 400
C6_Witness ==
    \E p \in Procs :
      /\ pc[p] = "done" /\ loc[p].op = "post" /\ loc[p].resp.status = 400
      /\ AddressRegexTest(loc[p].body.userAddress)
      /\ AddressRegexTest(loc[p].body.toAddress)
      /\ loc[p].body.amount # Missing
      /\ ~NumberOf(loc[p].body.amount).nan
      /\ NumberOf(loc[p].body.amount).sgn <= 0

\* C7: every persisted record has an amount that is a positive whole number
\* (a request with a positive amount that is not an integer is rejected
\* without persisting a record).
C7_PersistedAmountsArePositiveIntegers ==
    \A k \in 1..Len(txs) :
      BigIntOf(txs[k].amount).ok /\ BigIntOf(txs[k].amount).val > 0

\* C8: for every analytics record, gas saved, total batches and total
\* transactions never decrease from one state to the next.
C8_AnalyticsNeverDecrease ==
    [][\A k \in 1..Len(analytics) :
         /\ analytics'[k].total_gas_saved >= analytics[k].total_gas_saved
         /\ analytics'[k].total_batches >= analytics[k].total_batches
         /\ analytics'[k].total_transactions >= analytics[k].total_transactions]_vars

\* C9: in every state, every analytics record with totalBatches > 0 stores
\* an averageBatchSize equal to totalTransactions / totalBatches of that
\* record, within the rounding of its two decimals.
Abs(x) == IF x < 0 THEN 0 - x ELSE x
C9_AverageMatchesCounters ==
    \A k \in 1..Len(analytics) :
      analytics[k].total_batches > 0 =>
        2 * Abs(analytics[k].average_batch_size * analytics[k].total_batches
                  - AvgScale * analytics[k].total_transactions)
          <= analytics[k].total_batches
\* a record updated by a batch of several transactions: its average is
\* not 1
C9_Witness ==
    \E k \in 1..Len(analytics) :
      /\ analytics[k].total_batches >= 2
      /\ analytics[k].total_transactions > analytics[k].total_batches
      /\ analytics[k].average_batch_size > AvgScale

\* C10: in every state the analytics store holds at most one record per
\* scope identifier.
C10_OneRecordPerScope ==
    \A j, k \in 1..Len(analytics) :
      j # k => analytics[j].dapp_id # analytics[k].dapp_id

\* C14: ExecuteOne for a batchId that no stored record has answers "not
\* found" in the step that receives it, without calling the signer and
\* without changing the queue or the analytics.
ExecuteOneStarts(p) ==
    pc[p] = "idle" /\ pc'[p] # "idle" /\ loc'[p].op = "executeOne"
C14_AbsentIdIsNotFound ==
    [][\A p \in Procs :
         ExecuteOneStarts(p) /\ loc'[p].batchId \notin StoredIds =>
           /\ pc'[p] = "done"
           /\ ~loc'[p].resp.success
           /\ loc'[p].resp.error = "Transaction not found"
           /\ loc'[p].signerCalls = 0
           /\ txs' = txs
           /\ analytics' = analytics]_vars
\* the queue holds records, and an ExecuteOne for another batchId was
\* answered "not found"
C14_Witness ==
    \E p \in Procs :
      /\ pc[p] = "done" /\ loc[p].op = "executeOne"
      /\ loc[p].resp.error = "Transaction not found"
      /\ txs # <<>>
      /\ loc[p].batchId \notin StoredIds

\* C15: the step in which an ExecuteOne whose signer call succeeded returns
\* leaves its record completed, with executedAt set and txHash the hash the
\* signer returned, and the analytics one batch, one transaction and 30% of
\* 21000 gas above what they were.
ExecuteOneReturnsSuccess(p) ==
    pc[p] = "analyticsWrite" /\ loc[p].op = "executeOne" /\ pc'[p] = "done"
C15_SignerSuccessRecorded ==
    [][\A p \in Procs :
         ExecuteOneReturnsSuccess(p) =>
           /\ loc'[p].resp.success
           /\ loc'[p].resp.txHash = loc[p].txHashes[1]
           /\ \A k \in RowsWithId(loc[p].batchId) :
                /\ txs'[k].status = "completed"
                /\ txs'[k].executed_at # NoTime
                /\ txs'[k].tx_hash = loc[p].txHashes[1]
           /\ IF analytics = <<>>
              THEN /\ Len(analytics') = 1
                   /\ analytics'[1].total_batches = 1
                   /\ analytics'[1].total_transactions = 1
                   /\ analytics'[1].total_gas_saved = (GasUsedPerTx * SavingsPercent) \div 100
              ELSE \A k \in 1..Len(analytics) :
                   /\ analytics'[k].total_batches = analytics[k].total_batches + 1
                   /\ analytics'[k].total_transactions = analytics[k].total_transactions + 1
                   /\ analytics'[k].total_gas_saved =
                        analytics[k].total_gas_saved + (GasUsedPerTx * SavingsPercent) \div 100]_vars

\* C16: the step in which ExecuteOne's signer call fails sets the record to
\* failed with the signer's error message and nothing else, after exactly
\* one signer call, returns the failure without a txHash, and no step of
\* the call up to there changes the analytics.
SignerFails(p) == pc[p] = "signer" /\ pc'[p] = "done"
C17_NoAtMostOnceExecution ==
    /\ [](\A p \in Procs : pc[p] = "markExecuting" => ENABLED ExecuteOneMark(p))
    /\ [][\A p \in Procs :
            pc[p] = "markExecuting" /\ pc'[p] = "signer" =>
              /\ loc'[p].signerCalls = loc[p].signerCalls + 1
              /\ \A k \in RowsWithId(loc[p].batchId) : txs'[k].status = "executing"]_vars
\* two calls for the same batchId, both having read the record as pending,
\* have both set it executing and both called the signer
C17_Witness ==
    \E p, q \in Procs :
      /\ p # q
      /\ pc[p] = "signer" /\ pc[q] = "signer"
      /\ loc[p].batchId = loc[q].batchId
      /\ loc[p].seen = "pending" /\ loc[q].seen = "pending"
      /\ loc[p].signerCalls = 1 /\ loc[q].signerCalls = 1
      /\ \A k \in RowsWithId(loc[p].batchId) : txs[k].status = "executing"

\* C18: an AutoProcess that reads fewer pending transactions (at most
\* maxBatchSize of them) than minTransactionCount returns in that step, and
\* no step of such a call changes a record or the analytics.
AutoProcessStarts(p) ==
    pc[p] = "idle" /\ pc'[p] # "idle" /\ loc'[p].op = "autoBatch"
RECURSIVE NumRead(_)
NumRead(groups) ==
    IF groups = <<>> THEN 0 ELSE Len(groups[1]) + NumRead(Tail(groups))
C18_TooFewPendingIsNoOp ==
    [][\A p \in Procs :
         /\ (AutoProcessStarts(p)
               /\ Len(GetPendingTransactions(loc'[p].config.maxBatchSize))
                    < loc'[p].config.minTransactionCount) =>
              /\ pc'[p] = "done"
              /\ txs' = txs
              /\ analytics' = analytics
         /\ (loc[p].op = "autoBatch" /\ pc'[p] # pc[p]
               /\ NumRead(loc[p].groups) < loc[p].config.minTransactionCount) =>
              /\ txs' = txs
              /\ analytics' = analytics]_vars
\* an AutoProcess has returned without acting while pending transactions,
\* fewer than minTransactionCount, are in the queue
C18_Witness ==
    \E p \in Procs :
      /\ pc[p] = "done" /\ loc[p].op = "autoBatch"
      /\ loc[p].groups = <<>> /\ loc[p].resp.error = Null
      /\ Len(GetPendingTransactions(loc[p].config.maxBatchSize)) >= 1
      /\ Len(GetPendingTransactions(loc[p].config.maxBatchSize))
           < loc[p].config.minTransactionCount

\* C20: a request whose gas estimation fails (the RPC call throws, or the
\* conversion of the amount before it) goes on to the INSERT with a gas
\* estimate of 21000, and unless the generated batch id is already stored
\* the INSERT persists the record with that estimate and the enqueue
\* succeeds.
EstimationFailed(l) == l.rpcFailed \/ ~l.rpcCalled
C20_EstimationFailureFallsBack ==
    [][\A p \in Procs :
         /\ (ReceivesPost(p) /\ pc'[p] = "insert" /\ EstimationFailed(loc'[p])) =>
              loc'[p].gas = DefaultGas
         /\ (ReceivesPost(p) /\ loc'[p].rpcFailed) => pc'[p] = "insert"
         /\ (pc[p] = "insert" /\ pc'[p] = "done" /\ EstimationFailed(loc[p])
               /\ loc[p].batchId \notin StoredIds) =>
              /\ loc'[p].resp.success
              /\ loc'[p].resp.status = 200
              /\ Len(txs') = Len(txs) + 1
              /\ txs'[Len(txs')].batch_id = loc'[p].resp.batchId
              /\ txs'[Len(txs')].gas_estimate = DefaultGas]_vars
\* an enqueue whose RPC gas estimate threw has been answered with success
\* and its record carries the default estimate
C20_Witness ==
    \E p \in Procs :
      /\ pc[p] = "done" /\ loc[p].op = "post" /\ loc[p].rpcFailed
      /\ loc[p].resp.success
      /\ \E k \in 1..Len(txs) :
           /\ txs[k].batch_id = loc[p].resp.batchId
           /\ txs[k].gas_estimate = DefaultGas

\* C11: in ExecuteBatch over a non-empty list an iteration of the loop
\* changes no record but that of its own transaction, which it leaves
\* completed with a hash or failed with an error message; unless it was the
\* last, the loop goes on to the next transaction; and no later step of the
\* call changes the record of a transaction whose iteration is over.
InBatchLoop(p) == pc[p] = "batchLoop" /\ loc'[p] # loc[p]
AfterIteration(p) ==
    /\ pc[p] \in {"analyticsSelect", "analyticsWrite", "batchCatch"}
    /\ loc[p].op = "executeBatch"
    /\ pc'[p] # pc[p]
C11_OutcomeOnOwnRecordOnly ==
    [][\A p \in Procs :
         /\ InBatchLoop(p) =>
              LET tx == loc[p].txns[loc[p].i] IN
              /\ \A k \in 1..Len(txs) : txs[k].batch_id # tx => txs'[k] = txs[k]
              /\ loc'[p].i = loc[p].i + 1 =>
                   \A k \in 1..Len(txs) :
                     txs[k].batch_id = tx =>
                       \/ txs'[k].status = "completed" /\ txs'[k].tx_hash # Null
                       \/ txs'[k].status = "failed" /\ txs'[k].error_message # Null
              /\ loc[p].i < Len(loc[p].txns) =>
                   pc'[p] = "batchLoop" /\ loc'[p].i = loc[p].i + 1
         /\ AfterIteration(p) =>
              \A k \in 1..Len(txs) :
                (\E j \in 1..(loc[p].i - 1) : loc[p].txns[j] = txs[k].batch_id) =>
                  txs'[k] = txs[k]]_vars

\* C12: when ExecuteBatch returns success, the txHash it returns is the one
\* stored on the first transaction of its list that is completed, and it
\* returns no txHash when no transaction of the list is completed.
ExecuteBatchReturns(p) ==
    pc[p] # "done" /\ pc'[p] = "done" /\ loc'[p].op = "executeBatch"
InputList(p) == IF pc[p] = "idle" THEN loc'[p].txns ELSE loc[p].txns
C12_ReturnedHashIsFirstCompleted ==
    [][\A p \in Procs :
         ExecuteBatchReturns(p) /\ loc'[p].resp.success =>
           LET list == InputList(p)
               completed == {j \in 1..Len(list) :
                               \E k \in 1..Len(txs') :
                                  /\ txs'[k].batch_id = list[j]
                                  /\ txs'[k].status = "completed"}
           IN  IF completed = {}
               THEN loc'[p].resp.txHash = Null
               ELSE LET first == CHOOSE j \in completed : \A m \in completed : j <= m
                    IN  \A k \in 1..Len(txs') :
                          txs'[k].batch_id = list[first] =>
                            txs'[k].tx_hash = loc'[p].resp.txHash]_vars

\* C13: ExecuteBatch returns success = false exactly when its list is
\* empty; for the empty list it changes no record and no analytics, and for
\* a non-empty list it does not mark every transaction of the list failed
\* as it returns.
C13_FailsOnlyOnEmptyList ==
    [][\A p \in Procs :
         ExecuteBatchReturns(p) =>
           /\ (~loc'[p].resp.success) <=> (InputList(p) = <<>>)
           /\ InputList(p) = <<>> => (txs' = txs /\ analytics' = analytics)
           /\ InputList(p) # <<>> =>
                ~(/\ txs' # txs
                  /\ \A k \in 1..Len(txs') :
                       txs'[k].batch_id \in Range(InputList(p)) =>
                         txs'[k].status = "failed")]_vars

\* C19: an AutoProcess that reads at least minTransactionCount pending
\* transactions goes on with them partitioned by (recipient, token); when
\* it returns, every transaction of a group of at least minTransactionCount
\* has been executed, and no step of the call changes a transaction of a
\* smaller group, which stays pending.
GroupOfId(groups, id) ==
    CHOOSE g \in 1..Len(groups) : \E j \in 1..Len(groups[g]) : groups[g][j] = id
RowOf(id) == txs[CHOOSE k \in 1..Len(txs) : txs[k].batch_id = id]
C19_LargeGroupsExecuted ==
    [][\A p \in Procs :
         /\ AutoProcessStarts(p) =>
              LET read == GetPendingTransactions(loc'[p].config.maxBatchSize) IN
              Len(read) >= loc'[p].config.minTransactionCount =>
                /\ pc'[p] = "autoLoop"
                /\ NumRead(loc'[p].groups) = Len(read)
                /\ \A a, b \in 1..Len(read) :
                     (GroupOfId(loc'[p].groups, read[a].batch_id)
                        = GroupOfId(loc'[p].groups, read[b].batch_id))
                       <=> (read[a].to_address = read[b].to_address
                              /\ read[a].token_address = read[b].token_address)
         /\ (pc[p] = "autoLoop" /\ pc'[p] = "done") =>
              \A g \in 1..Len(loc[p].groups) :
                Len(loc[p].groups[g]) >= loc[p].config.minTransactionCount =>
                  \A id \in Range(loc[p].groups[g]) :
                    RowOf(id).status \in {"completed", "failed"}
         /\ (loc[p].op = "autoBatch" /\ loc'[p] # loc[p]) =>
              \A g \in 1..Len(loc[p].groups) :
                Len(loc[p].groups[g]) < loc[p].config.minTransactionCount =>
                  \A k \in 1..Len(txs) :
                    txs[k].batch_id \in Range(loc[p].groups[g]) =>
                      txs'[k] = txs[k] /\ txs[k].status = "pending"]_vars

OptimizeReturns(p) ==
    pc[p] = "done" /\ loc[p].op = "optimizeBatch" /\ loc[p].ret = "return"
\* the token of a record, an absent one being the native currency
TokenOf(r) == IF r.token_address = Missing THEN NativeKey ELSE r.token_address
Occurrences(groups, id) ==
    Cardinality({ <<g, j>> \in (1..Len(groups)) \X (1..AutoQueueLen + 1) :
                    j <= Len(groups[g]) /\ groups[g][j] = id })

\* C21: the groups optimizeBatch returns are a partition of its input by
\* (recipient, token): every input transaction is in exactly one group, the
\* transactions of a group have the same recipient and the same token (an
\* absent token being the native one), and no two groups have the same
\* recipient and token.
C21_OptimizePartitions ==
    \A p \in Procs :
      OptimizeReturns(p) =>
        LET groups == loc[p].groups IN
        /\ \A k \in 1..Len(loc[p].txns) : Occurrences(groups, loc[p].txns[k]) = 1
        /\ \A g \in 1..Len(groups) :
             /\ groups[g] # <<>>
             /\ \A j \in 1..Len(groups[g]) :
                  /\ groups[g][j] \in Range(loc[p].txns)
                  /\ RowOf(groups[g][j]).to_address = RowOf(groups[g][1]).to_address
                  /\ TokenOf(RowOf(groups[g][j])) = TokenOf(RowOf(groups[g][1]))
        /\ \A g, h \in 1..Len(groups) :
             g # h =>
               \/ RowOf(groups[g][1]).to_address # RowOf(groups[h][1]).to_address
               \/ TokenOf(RowOf(groups[g][1])) # TokenOf(RowOf(groups[h][1]))
\* a returned list of several groups, one of them of several transactions,
\* some of a token and some native
C21_Witness ==
    \E p \in Procs :
      /\ OptimizeReturns(p)
      /\ Len(loc[p].groups) >= 2
      /\ \E g \in 1..Len(loc[p].groups) : Len(loc[p].groups[g]) >= 2
      /\ \E k \in 1..Len(txs) : txs[k].token_address = NativeKey
      /\ \E k \in 1..Len(txs) : txs[k].token_address = Missing
      /\ \E k \in 1..Len(txs) : txs[k].token_address = TokenT

RECURSIVE SumOfIds(_)
SumOfIds(ids) ==
    IF ids = <<>> THEN 0
    ELSE DecimalValue(RowOf(ids[1]).amount) + SumOfIds(Tail(ids))

\* C22: in the list optimizeBatch returns, of any two groups whose summed
\* amounts differ the one with the larger sum comes first.
C22_LargerSumFirst ==
    \A p \in Procs :
      OptimizeReturns(p) =>
        \A g, h \in 1..Len(loc[p].groups) :
          (g < h /\ SumOfIds(loc[p].groups[g]) # SumOfIds(loc[p].groups[h]))
             => SumOfIds(loc[p].groups[g]) > SumOfIds(loc[p].groups[h])
\* a returned list of three groups of three different sums, whose input
\* had the smallest first
C22_Witness ==
    \E p \in Procs :
      /\ OptimizeReturns(p)
      /\ Len(loc[p].groups) >= 2
      /\ loc[p].groups[1] # <<loc[p].txns[1]>>
      /\ \E g, h \in 1..Len(loc[p].groups) :
           SumOfIds(loc[p].groups[g]) # SumOfIds(loc[p].groups[h])
      /\ SumOfIds(<<loc[p].txns[1]>>) < SumOfIds(loc[p].groups[1])

\* C23: every row of scheduled_batches was created with an execution_time
\* strictly later than its creation time.
C23_ExecutionTimeInFuture ==
    \A k \in 1..Len(scheduled) : scheduled[k].execution_time > scheduled[k].created_at

\* the step in which an executeBatch call on a non-empty list leaves the
\* method
ExecuteBatchEnds(p) ==
    /\ loc[p].op = "executeBatch"
    /\ loc[p].txns # <<>>
    /\ pc[p] \notin {"idle", "done"}
    /\ pc'[p] = "done"
\* C24: an executeBatch call on a non-empty list of N transactions makes
\* one analytics update, which adds 1 to the scope's batch count, N to its
\* transaction count and 30% of N * 21000 to its gas saved, whatever the
\* outcomes of the N transactions.
C24_BatchAnalyticsOnce ==
    [][\A p \in Procs :
         ExecuteBatchEnds(p) =>
           LET n == Len(loc[p].txns)
               saved == (n * GasUsedPerTx * SavingsPercent) \div 100
           IN  /\ pc[p] = "analyticsWrite"
               /\ IF analytics = <<>>
                  THEN /\ Len(analytics') = 1
                       /\ analytics'[1].total_batches = 1
                       /\ analytics'[1].total_transactions = n
                       /\ analytics'[1].total_gas_saved = saved
                  ELSE /\ Len(analytics') = Len(analytics)
                       /\ \A k \in 1..Len(analytics) :
                            /\ analytics'[k].total_batches = analytics[k].total_batches + 1
                            /\ analytics'[k].total_transactions
                                 = analytics[k].total_transactions + n
                            /\ analytics'[k].total_gas_saved
                                 = analytics[k].total_gas_saved + saved]_vars

NoneInFlight == \A p \in Procs : pc[p] \in {"idle", "done"}
\* C25: once no execution is in flight, the scope's totals are the sums of
\* the deltas passed to the updateAnalytics calls that completed.
C25_NoLostUpdate ==
    NoneInFlight =>
      /\ analytics = <<>> => applied = NoUpdates
      /\ \A k \in 1..Len(analytics) :
           /\ analytics[k].total_batches = applied.batchCount
           /\ analytics[k].total_transactions = applied.transactionCount
           /\ analytics[k].total_gas_saved = applied.gasSaved

\* C26: a record that an execution set to executing is completed or failed
\* when that execution returns: with no execution in flight, no record is
\* executing.
C26_NoneLeftExecuting ==
    NoneInFlight => \A k \in 1..Len(txs) : txs[k].status # "executing"

\* a handler inside updateAnalytics waits for a client of an empty pool
WaitsForClient(p) == pc[p] = "analyticsSelect" /\ ~PoolConnect
\* every client is held by a handler that waits for another one
PoolDeadlock ==
    /\ \E p \in Procs : WaitsForClient(p)
    /\ \A p \in Procs : Held(p) > 0 => WaitsForClient(p)
\* C27: concurrent executeImmediateTransaction and executeBatch calls never
\* deadlock on the connection pool: it never happens that every client is
\* held by a call that waits for a second one.
C27_NoPoolDeadlock == ~PoolDeadlock

\* C28: processAutoBatching moves no record out of pending while the
\* record's scheduled_for is still in the future.
C28_NotBeforeScheduledFor ==
    [][\A k \in 1..Len(txs) :
         (/\ txs[k].status = "pending"
          /\ txs[k].scheduled_for # NoTime
          /\ now < txs[k].scheduled_for)
            => txs'[k].status = "pending"]_vars

\* C29: whenever executeImmediateTransaction has called sendTransaction for
\* a record, the amount it handed over, converted to the smallest unit by
\* the wallet (times 10^18), is the record's stored amount.
C29_AmountSentIsAmountStored ==
    \A p \in Procs :
      (pc[p] = "signer" /\ loc[p].op = "executeOne") =>
        ParseEther(loc[p].amountInSHM) = BigIntString(RowOf(loc[p].batchId).amount)

Submissions(k) ==
    Cardinality({n \in 1..Len(sdk.submitted) : sdk.submitted[n].tx = k})
\* C30: autoBatch and its timers hand each input transaction to addToBatch
\* exactly once (never twice, and once when the call has returned and no
\* timer is left), and no timer hands one over after destroy().
C30_SubmittedExactlyOnce ==
    /\ \A k \in 1..Len(sdk.transactions) : Submissions(k) <= 1
    /\ (sdk.pc = "done" /\ sdk.armed = {} /\ sdk.running = {})
          => \A k \in 1..Len(sdk.transactions) : Submissions(k) = 1
    /\ \A n \in 1..Len(sdk.submitted) :
         sdk.submitted[n].by = "timer" => ~sdk.submitted[n].afterDestroy
====
